---- MODULE Spec2Model ----
(***************************************************************************)
(* Model of the Lua export plugin (src/plugins/lua/luaplugin.cpp), built   *)
(* with POLYGON_FORMAT_SEQUENCE, MOAI_LUA_DATA_FORMAT, FIRST_IMAGE and     *)
(* FLATTEN_INTO_PARENT defined (lines 55-58).                              *)
(*                                                                         *)
(* One export is LuaPlugin::write: open the device, traverse the map      *)
(* (writeStartDocument, writeMap, writeEndDocument) and finish (error     *)
(* check, commit).  The traversal is modelled by operators that return    *)
(* the sequence of calls made on the LuaTableWriter and on mGidMapper, in *)
(* program order.                                                          *)
(***************************************************************************)
EXTENDS Integers, Sequences, FiniteSets, TLC

VARIABLES
    variant,      \* build variant of the output device: "QSaveFile" | "QFile"
    pc,           \* position in write: "idle" | "opened" | "traversed" | "crashed"
    map,          \* the map handed to write
    calls,        \* writer / GID-mapper calls made by the current export
    mGidMapper,   \* LuaPlugin::mGidMapper (member, survives between exports)
    mError,       \* LuaPlugin::mError
    ret,          \* result of the last write: "none" | "true" | "false"
    dest,         \* what the destination path holds
    before        \* what the destination path held when write was called

vars == <<variant, pc, map, calls, mGidMapper, mError, ret, dest, before>>

(***************************************************************************)
(* Bounds of the model.                                                    *)
(***************************************************************************)
MaxTilesets == 2
MaxTiles == 2
MaxDim == 2
MaxLayers == 2
MaxPoints == 2
MaxCoord == 2

(***************************************************************************)
(* Program constants.                                                      *)
(***************************************************************************)
\* 0xFFFFFFFF (line 216): the four corner bytes of a tile without terrain.
UnsetTerrain == <<255, 255, 255, 255>>
UnsetProbability == -1
OpaqueAlpha == 255

(***************************************************************************)
(* Writer and GID-mapper calls.  Every call is a record of one shape:      *)
(* op names the method, key its key argument, s its string value, a and b  *)
(* its numbers.  Strings the claims do not read (names, paths) are "".     *)
(***************************************************************************)
Ev(op, key, a, b) == [op |-> op, key |-> key, s |-> "", a |-> a, b |-> b]

writeStartDocument == <<Ev("startDocument", "", 0, 0)>>
writeEndDocument == <<Ev("endDocument", "", 0, 0)>>
writeStartReturnTable == <<Ev("startReturnTable", "", 0, 0)>>
writeStartTable(key) == <<Ev("startTable", key, 0, 0)>>
writeQuotedStartTable(key, a, b) == <<Ev("quotedStartTable", key, a, b)>>
writeEndTable == <<Ev("endTable", "", 0, 0)>>
writeKeyAndValue(key, v) == <<Ev("keyValue", key, v, 0)>>
writeKeyAndString(key, str) ==
    <<[op |-> "keyValue", key |-> key, s |-> str, a |-> 0, b |-> 0]>>
writeQuotedKeyAndValue(k, v) == <<Ev("quotedKeyValue", "", k, v)>>
writeValue(v) == <<Ev("value", "", v, 0)>>
\* writeValue of an unsigned: u[1] is its low and u[2] its high 16-bit word.
writeUnsigned(u) == <<Ev("value", "", u[1], u[2])>>
setSuppressNewlines(on) == <<Ev("suppress", "", IF on THEN 1 ELSE 0, 0)>>
prepareNewLine == <<Ev("newline", "", 0, 0)>>

\* Calls on mGidMapper, recorded in the same sequence to keep program order.
gidClear == <<Ev("gidClear", "", 0, 0)>>
gidInsert(firstGid, ts) == <<Ev("gidInsert", "", firstGid, ts)>>
gidLookup(kind, cell) == <<Ev("gidLookup", kind, cell.ts, cell.id)>>
\* The process dies here (an outcome of undefined behaviour).
crashHere == <<Ev("crash", "", 0, 0)>>

\* f(1) \o f(2) \o ... \o f(n)
FlatMap(f(_), n) ==
    LET acc[i \in 0..n] == IF i = 0 THEN <<>> ELSE acc[i - 1] \o f(i)
    IN acc[n]

\* Ascending enumeration of a finite set of integers.
RECURSIVE SortedSeq(_)
SortedSeq(S) ==
    IF S = {} THEN <<>>
    ELSE LET m == CHOOSE x \in S : \A y \in S : x <= y
         IN <<m>> \o SortedSeq(S \ {m})

(***************************************************************************)
(* The map object model (read-only input of the export).                   *)
(***************************************************************************)
EmptyCell == [ts |-> 0, id |-> 0]
Cell(ts, id) == [ts |-> ts, id |-> id]
CellIsEmpty(cell) == cell.ts = 0

(***************************************************************************)
(* GidMapper: the table maps a registered tileset to its firstGid.        *)
(***************************************************************************)
EmptyGidMapper == <<>>
UnregisteredGid == 0

GidInsert(g, firstGid, ts) ==
    [t \in (DOMAIN g) \cup {ts} |-> IF t = ts THEN firstGid ELSE g[t]]

cellToGid(g, cell) ==
    IF CellIsEmpty(cell) THEN 0
    ELSE IF cell.ts \in DOMAIN g THEN g[cell.ts] + cell.id
    ELSE UnregisteredGid

cellToGidOrigin(g, cell) ==
    IF CellIsEmpty(cell) THEN 0 ELSE cell.id + 1


(***************************************************************************)
(* Numbers.  Coordinates of polygon points are reals in the program; the   *)
(* model keeps them in half units (c stands for c/2).                      *)
(***************************************************************************)
\* Truncation toward zero of the real c/2.
TruncHalf(c) == IF c >= 0 THEN c \div 2 ELSE -((-c) \div 2)

\* unsigned int(r) for the real r = c/2 (lines 643-644).  The conversion is
\* defined when the truncated value fits the type; otherwise it is undefined
\* and ubc names what the build does: "wrap" (modulo 2^32) or "saturate" (0).
\* An unsigned is kept as <<low word, high word>>, value low + 2^16 * high.
Word == 2 ^ 16
UIntOf(v) == <<v % Word, (v \div Word) % Word>>
ToUnsigned(c, ubc) ==
    IF TruncHalf(c) >= 0 THEN UIntOf(TruncHalf(c))
    ELSE IF ubc = "wrap" THEN UIntOf(TruncHalf(c))
    ELSE UIntOf(0)

\* Tile::cornerTerrainId(corner): byte `corner` of the packed terrain value
\* (kept as its four bytes, first corner first), 255 standing for "no
\* terrain" (-1).
cornerTerrainId(terrain, corner) ==
    IF terrain[corner + 1] = 255 THEN -1 ELSE terrain[corner + 1]

(***************************************************************************)
(* LuaPlugin::writeProperties (lines 193-204).  A property bag is a set of *)
(* keys; QMap iterates them in ascending key order.                        *)
(***************************************************************************)
writePropertiesUnclosed(properties) ==
    writeStartTable("properties")
    \o (IF properties = {} THEN writeEndTable ELSE <<>>)

writeProperties(properties) ==
    LET keys == SortedSeq(properties)
    IN writeStartTable("properties")
       \o FlatMap(LAMBDA i : writeQuotedKeyAndValue(keys[i], 0), Len(keys))
       \o writeEndTable

includeTileNoFrames(tile) ==
    \/ tile.properties # {}
    \/ tile.imageSource
    \/ tile.objectGroup # <<>>
    \/ tile.terrain # UnsetTerrain
    \/ tile.terrainProbability # UnsetProbability

(***************************************************************************)
(* includeTile (lines 206-222).                                            *)
(***************************************************************************)
includeTile(tile) ==
    \/ tile.properties # {}
    \/ tile.imageSource
    \/ tile.objectGroup # <<>>
    \/ tile.frames # <<>>
    \/ tile.terrain # UnsetTerrain
    \/ tile.terrainProbability # UnsetProbability

(***************************************************************************)
(* toString(MapObject::Shape) (lines 530-543).                             *)
(***************************************************************************)
toString(shape) ==
    CASE shape = "Rectangle" -> "rectangle"
      [] shape = "Polygon" -> "polygon"
      [] shape = "Polyline" -> "polyline"
      [] shape = "Ellipse" -> "ellipse"
      [] OTHER -> "unknown"

(***************************************************************************)
(* LuaPlugin::writeMapObject (lines 545-657).                              *)
(***************************************************************************)
writePolygon(mapObject, ubc) ==
    IF mapObject.polygon = <<>> THEN <<>>
    ELSE (IF mapObject.shape = "Polygon"
          THEN writeStartTable("polygon")
          ELSE writeStartTable("polyline"))
         \o setSuppressNewlines(TRUE)
         \o FlatMap(LAMBDA i :
                writeUnsigned(ToUnsigned(mapObject.polygon[i][1], ubc))
                \o writeUnsigned(ToUnsigned(mapObject.polygon[i][2], ubc)),
                Len(mapObject.polygon))
         \o writeEndTable
         \o setSuppressNewlines(FALSE)

writeMapObject(g, ubc, mapObject) ==
    writeStartTable("")
    \o writeKeyAndValue("name", 0)
    \o writeKeyAndString("type", "")
    \o writeKeyAndString("shape", toString(mapObject.shape))
    \o writeKeyAndValue("x", mapObject.x)
    \o writeKeyAndValue("y", mapObject.y)
    \o writeKeyAndValue("width", mapObject.width)
    \o writeKeyAndValue("height", mapObject.height)
    \o writeKeyAndValue("rotation", 0)
    \o (IF ~CellIsEmpty(mapObject.cell)
        THEN gidLookup("cellToGid", mapObject.cell)
             \o writeKeyAndValue("gid", cellToGid(g, mapObject.cell))
        ELSE <<>>)
    \o writeKeyAndValue("visible", 1)
    \o writePolygon(mapObject, ubc)
    \o writeProperties(mapObject.properties)
    \o writeEndTable

writeObjectGroupPropertiesLast(prio, g, ubc, objectGroup) ==
    writeQuotedStartTable("name", 0, 0)
    \o (IF prio # 0 THEN writeKeyAndValue("prio", prio) ELSE <<>>)
    \o writeKeyAndString("type", "objectgroup")
    \o writeKeyAndValue("visible", 1)
    \o writeKeyAndValue("opacity", 1)
    \o writeStartTable("objects")
    \o FlatMap(LAMBDA i : writeMapObject(g, ubc, objectGroup.objects[i]),
               Len(objectGroup.objects))
    \o writeEndTable
    \o writeProperties(objectGroup.properties)
    \o writeEndTable

(***************************************************************************)
(* LuaPlugin::writeObjectGroup (lines 462-494).                            *)
(***************************************************************************)
writeObjectGroup(prio, g, ubc, objectGroup) ==
    writeQuotedStartTable("name", 0, 0)
    \o (IF prio # 0 THEN writeKeyAndValue("prio", prio) ELSE <<>>)
    \o writeKeyAndString("type", "objectgroup")
    \o writeKeyAndValue("visible", 1)
    \o writeKeyAndValue("opacity", 1)
    \o writeProperties(objectGroup.properties)
    \o writeStartTable("objects")
    \o FlatMap(LAMBDA i : writeMapObject(g, ubc, objectGroup.objects[i]),
               Len(objectGroup.objects))
    \o writeEndTable
    \o writeEndTable

(***************************************************************************)
(* LuaPlugin::writeImageLayer (lines 496-528).                             *)
(***************************************************************************)
writeImageLayer(prio, imageLayer) ==
    writeQuotedStartTable("name", 0, 0)
    \o writeKeyAndValue("prio", prio)
    \o writeKeyAndString("type", "imagelayer")
    \o writeKeyAndValue("x", 0)
    \o writeKeyAndValue("y", 0)
    \o writeKeyAndValue("visible", 1)
    \o writeKeyAndValue("opacity", 1)
    \o writeKeyAndValue("image", 0)
    \o (IF imageLayer.transparent
        THEN writeKeyAndValue("transparentcolor", 0) ELSE <<>>)
    \o writeProperties(imageLayer.properties)
    \o writeEndTable


(***************************************************************************)
(* LuaPlugin::writeTileset (lines 224-363).                                *)
(***************************************************************************)
tileCount(tileset) == Len(tileset.tiles)

writeTerrains(tileset) ==
    writeStartTable("terrains")
    \o FlatMap(LAMBDA i :
           writeStartTable("")
           \o writeKeyAndValue("name", 0)
           \o writeKeyAndValue("tile", 0)
           \o writeProperties(tileset.terrains[i].properties)
           \o writeEndTable,
           Len(tileset.terrains))
    \o writeEndTable

\* Body of the loop of lines 302-359 for the tile of index i (0-based).
writeTile(g, ubc, tile, i) ==
    IF ~includeTile(tile) THEN <<>>
    ELSE writeQuotedStartTable("id = ", i + 1, 0)
         \o (IF tile.properties # {}
             THEN writeProperties(tile.properties) ELSE <<>>)
         \o (IF tile.imageSource
             THEN writeKeyAndValue("image", 0)
                  \o (IF ~tile.sizeNull
                      THEN writeKeyAndValue("width", 1)
                           \o writeKeyAndValue("height", 1)
                      ELSE <<>>)
             ELSE <<>>)
         \o (IF tile.terrain # UnsetTerrain
             THEN writeStartTable("terrain")
                  \o setSuppressNewlines(TRUE)
                  \o FlatMap(LAMBDA c :
                         writeValue(cornerTerrainId(tile.terrain, c - 1)), 4)
                  \o writeEndTable
                  \o setSuppressNewlines(FALSE)
             ELSE <<>>)
         \o (IF tile.terrainProbability # UnsetProbability
             THEN writeKeyAndValue("probability", tile.terrainProbability)
             ELSE <<>>)
         \o (IF tile.objectGroup # <<>>
             THEN writeObjectGroup(0, g, ubc, tile.objectGroup[1])
             ELSE <<>>)
         \o (IF tile.frames # <<>>
             THEN writeStartTable("animation")
                  \o FlatMap(LAMBDA f :
                         writeStartTable("")
                         \o writeKeyAndValue("tileid", tile.frames[f].tileId)
                         \o writeKeyAndValue("duration", tile.frames[f].duration)
                         \o writeEndTable,
                         Len(tile.frames))
                  \o writeEndTable
             ELSE <<>>)
         \o writeEndTable

writeTileset(g, ubc, tileset, firstGid) ==
    (IF tileset.imageSource
     THEN writeQuotedStartTable("image", 0, 0)
     ELSE writeStartTable(""))
    \o writeKeyAndValue("name", 0)
    \o (IF tileset.fileName THEN writeKeyAndValue("filename", 0) ELSE <<>>)
    \o writeKeyAndValue("tilewidth", 1)
    \o writeKeyAndValue("tileheight", 1)
    \o writeKeyAndValue("spacing", 0)
    \o writeKeyAndValue("margin", 0)
    \o (IF tileset.imageSource
        THEN writeKeyAndValue("imagewidth", 1)
             \o writeKeyAndValue("imageheight", 1)
             \o writeKeyAndValue("deckwidth", 1)
             \o writeKeyAndValue("deckheight", 1)
        ELSE <<>>)
    \o (IF tileset.transparent
        THEN writeKeyAndValue("transparentcolor", 0) ELSE <<>>)
    \o writeKeyAndValue("xoffset", 0)
    \o writeKeyAndValue("yoffset", 0)
    \o writeProperties(tileset.properties)
    \o writeTerrains(tileset)
    \o writeStartTable("tiles")
    \o FlatMap(LAMBDA k : writeTile(g, ubc, tileset.tiles[k], k - 1),
               tileCount(tileset))
    \o writeEndTable
    \o writeEndTable

(***************************************************************************)
(* LuaPlugin::writeTileLayer (lines 364-460).                              *)
(***************************************************************************)
cellAt(tileLayer, x, y) == tileLayer.cells[<<x, y>>]

\* TileLayer::usedTilesets(): the tilesets of the layer's non-empty cells.
usedTilesets(tileLayer) ==
    {cellAt(tileLayer, x, y).ts :
        x \in 0..(tileLayer.width - 1), y \in 0..(tileLayer.height - 1)} \ {0}

\* The tileset object a cell's pointer designates.
TilesetById(tilesets, id) ==
    tilesets[CHOOSE i \in DOMAIN tilesets : tilesets[i].id = id]

\* The foreach of lines 414-426 for the cell (x, y), over the used tilesets
\* in iteration order `used`.  tileAt(tileId - 1) past the end of a tileset
\* is undefined; ubt names the outcome: "crash", or a garbage read that
\* looks like a tile with ("nonempty") or without ("empty") properties.
scanSpecialTile(g, tilesets, used, ubt, cell) ==
    LET tileId == cellToGidOrigin(g, cell)
        look == gidLookup("cellToGidOrigin", cell)
        n == Len(used)
        scan[k \in 1..(n + 1)] ==
            IF k > n THEN [out |-> <<>>, hit |-> "none"]
            ELSE LET tileset == TilesetById(tilesets, used[k])
                     rest == scan[k + 1]
                     skip == [out |-> look \o rest.out, hit |-> rest.hit]
                     take == [out |-> look, hit |-> "entry"]
                 IN IF tileId > 0
                    THEN IF tileId - 1 >= tileCount(tileset)
                         THEN CASE ubt = "crash" ->
                                     [out |-> look, hit |-> "crash"]
                                [] ubt = "nonempty" -> take
                                [] OTHER -> skip
                         ELSE IF tileset.tiles[tileId].properties # {}
                              THEN take ELSE skip
                    ELSE skip
    IN scan[1]

\* Lines 410-431: the `specialtiles` table.
writeSpecialTiles(g, tilesets, ord, ubt, tileLayer) ==
    LET used == SelectSeq(ord, LAMBDA t : t \in usedTilesets(tileLayer))
        w == tileLayer.width
        n == tileLayer.width * tileLayer.height
        pass[p \in 0..n] ==
            IF p = 0 THEN [out |-> <<>>, authorizeWriteTable |-> TRUE]
            ELSE LET x == (p - 1) % w
                     y == (p - 1) \div w
                     cell == cellAt(tileLayer, x, y)
                     r == scanSpecialTile(g, tilesets, used, ubt, cell)
                     prev == pass[p - 1]
                 IN IF r.hit = "entry"
                    THEN [out |-> prev.out \o r.out
                                  \o (IF prev.authorizeWriteTable
                                      THEN writeStartTable("specialtiles")
                                      ELSE <<>>)
                                  \o writeQuotedStartTable("y = , x = ",
                                                           y + 1, x + 1)
                                  \o writeKeyAndValue("id",
                                         cellToGidOrigin(g, cell))
                                  \o writeEndTable,
                          authorizeWriteTable |-> FALSE]
                    ELSE [out |-> prev.out \o r.out
                                  \o (IF r.hit = "crash"
                                      THEN crashHere ELSE <<>>),
                          authorizeWriteTable |-> prev.authorizeWriteTable]
    IN pass[n].out
       \o (IF ~pass[n].authorizeWriteTable THEN writeEndTable ELSE <<>>)

rowNumberFromZero(y) == y

\* Line 440: the first value of the row of index y (0-based).
rowNumber(y) == y + 1

\* Lines 434-458: the `data` table.
writeData(g, tileLayer) ==
    writeStartTable("data")
    \o FlatMap(LAMBDA row :
           prepareNewLine
           \o setSuppressNewlines(TRUE)
           \o writeStartTable("")
           \o writeValue(rowNumber(row - 1))
           \o FlatMap(LAMBDA col :
                  gidLookup("cellToGidOrigin",
                            cellAt(tileLayer, col - 1, row - 1))
                  \o writeValue(cellToGidOrigin(g,
                                    cellAt(tileLayer, col - 1, row - 1))),
                  tileLayer.width)
           \o writeEndTable
           \o setSuppressNewlines(FALSE),
           tileLayer.height)
    \o writeEndTable

writeTileLayer(prio, g, tilesets, ord, ubt, tileLayer) ==
    writeQuotedStartTable("name", 0, 0)
    \o writeKeyAndValue("prio", prio)
    \o writeKeyAndString("type", "tilelayer")
    \o (IF Cardinality(usedTilesets(tileLayer)) = 1
        THEN writeKeyAndValue("image", 0) ELSE <<>>)
    \o writeKeyAndValue("x", 0)
    \o writeKeyAndValue("y", 0)
    \o writeKeyAndValue("width", tileLayer.width)
    \o writeKeyAndValue("height", tileLayer.height)
    \o writeKeyAndValue("visible", 1)
    \o writeKeyAndValue("opacity", 1)
    \o writeProperties(tileLayer.properties)
    \o writeKeyAndValue("encoding", 0)
    \o writeSpecialTiles(g, tilesets, ord, ubt, tileLayer)
    \o writeData(g, tileLayer)
    \o writeEndTable

(***************************************************************************)
(* LuaPlugin::writeMap (lines 113-191).                                    *)
(***************************************************************************)
GidClear(g) == EmptyGidMapper

nextFirstGidByOne(firstGid, tileset) == firstGid + 1

\* Line 168: firstGid += tileset->tileCount().
nextFirstGid(firstGid, tileset) == firstGid + tileCount(tileset)

\* Lines 163-169.  Returns the calls and the table after the loop.
writeTilesets(g0, ubc, tilesets) ==
    LET loop[i \in 0..Len(tilesets)] ==
            IF i = 0
            THEN [out |-> gidClear, g |-> GidClear(g0), firstGid |-> 1]
            ELSE LET prev == loop[i - 1]
                     tileset == tilesets[i]
                 IN [out |-> prev.out
                             \o writeTileset(prev.g, ubc, tileset, prev.firstGid)
                             \o gidInsert(prev.firstGid, tileset.id),
                     g |-> GidInsert(prev.g, prev.firstGid, tileset.id),
                     firstGid |-> nextFirstGid(prev.firstGid, tileset)]
    IN loop[Len(tilesets)]

\* Lines 172-188.
writeLayers(g, m, ord, ubc, ubt) ==
    FlatMap(LAMBDA prio :
        LET layer == m.layers[prio]
        IN CASE layer.layerType = "tilelayer" ->
                    writeTileLayer(prio, g, m.tilesets \o m.others, ord, ubt,
                                   layer)
             [] layer.layerType = "objectgroup" ->
                    writeObjectGroup(prio, g, ubc, layer)
             [] OTHER -> writeImageLayer(prio, layer),
        Len(m.layers))

writeMap(g0, m, ord, ubc, ubt) ==
    LET ts == writeTilesets(g0, ubc, m.tilesets)
    IN [out |->
            writeStartReturnTable
            \o writeKeyAndValue("version", 0)
            \o writeKeyAndValue("luaversion", 0)
            \o writeKeyAndValue("tiledversion", 0)
            \o writeKeyAndString("orientation", m.orientation)
            \o writeKeyAndValue("width", m.width)
            \o writeKeyAndValue("height", m.height)
            \o writeKeyAndValue("cellwidth", 1)
            \o writeKeyAndValue("cellheight", 1)
            \o writeKeyAndValue("nextobjectid", 1)
            \o (IF m.orientation = "hexagonal"
                THEN writeKeyAndValue("hexsidelength", 0) ELSE <<>>)
            \o (IF m.orientation \in {"staggered", "hexagonal"}
                THEN writeKeyAndValue("staggeraxis", 0)
                     \o writeKeyAndValue("staggerindex", 0)
                ELSE <<>>)
            \o (IF m.backgroundColor.valid
                THEN writeStartTable("backgroundcolor")
                     \o setSuppressNewlines(TRUE)
                     \o writeValue(m.backgroundColor.red)
                     \o writeValue(m.backgroundColor.green)
                     \o writeValue(m.backgroundColor.blue)
                     \o (IF m.backgroundColor.alpha # OpaqueAlpha
                         THEN writeValue(m.backgroundColor.alpha) ELSE <<>>)
                     \o writeEndTable
                     \o setSuppressNewlines(FALSE)
                ELSE <<>>)
            \o writeProperties(m.properties)
            \o writeStartTable("tilesets")
            \o ts.out
            \o writeEndTable
            \o writeStartTable("layers")
            \o writeLayers(ts.g, m, ord, ubc, ubt)
            \o writeEndTable
            \o writeEndTable,
        g |-> ts.g]

\* The calls made before the process died, if it did.
CutAtCrash(trace) ==
    IF \E i \in DOMAIN trace : trace[i].op = "crash"
    THEN SubSeq(trace, 1,
                CHOOSE i \in DOMAIN trace :
                    /\ trace[i].op = "crash"
                    /\ \A j \in 1..(i - 1) : trace[j].op # "crash")
    ELSE trace


(***************************************************************************)
(* Inputs: the maps handed to write.  Tilesets are identified by a number *)
(* (the pointer of the program); a cell names its tileset by it.           *)
(***************************************************************************)
MkTile(properties, imageSource, sizeNull, objectGroup, frames, terrain, terrainProbability) ==
    [properties |-> properties, imageSource |-> imageSource,
     sizeNull |-> sizeNull, objectGroup |-> objectGroup, frames |-> frames,
     terrain |-> terrain, terrainProbability |-> terrainProbability]

MkObject(shape, cell, polygon, properties) ==
    [shape |-> shape, cell |-> cell, polygon |-> polygon,
     properties |-> properties, x |-> 10, y |-> 20, width |-> 30,
     height |-> 40]

MkLayer(layerType, properties, width, height, cells, objects, transparent) ==
    [layerType |-> layerType, properties |-> properties, width |-> width,
     height |-> height, cells |-> cells, objects |-> objects,
     transparent |-> transparent]

MkObjectGroup(properties, objects) ==
    MkLayer("objectgroup", properties, 0, 0, <<>>, objects, FALSE)

MkImageLayer(properties, transparent) ==
    MkLayer("imagelayer", properties, 0, 0, <<>>, <<>>, transparent)

MkTileLayer(properties, width, height, cells) ==
    MkLayer("tilelayer", properties, width, height, cells, <<>>, FALSE)

MkTileset(id, rich, tiles) ==
    [id |-> id, imageSource |-> rich, fileName |-> rich, transparent |-> rich,
     properties |-> IF rich THEN {1, 2} ELSE {},
     terrains |-> IF rich THEN <<[properties |-> {}], [properties |-> {3}]>>
                  ELSE <<>>,
     tiles |-> tiles]

NoColor == [valid |-> FALSE, red |-> 0, green |-> 0, blue |-> 0, alpha |-> 0]
Color(alpha) ==
    [valid |-> TRUE, red |-> 255, green |-> 200, blue |-> 100, alpha |-> alpha]

MkMap(orientation, backgroundColor, properties, tilesets, layers) ==
    [orientation |-> orientation, backgroundColor |-> backgroundColor,
     properties |-> properties, width |-> 2, height |-> 1,
     tilesets |-> tilesets, others |-> <<>>, layers |-> layers]

PlainTile == MkTile({}, FALSE, TRUE, <<>>, <<>>, UnsetTerrain, UnsetProbability)
PropsTile == MkTile({1}, FALSE, TRUE, <<>>, <<>>, UnsetTerrain, UnsetProbability)

\* Sequences over S of length lo..hi.
SeqsOf(S, lo, hi) == UNION {[1..n -> S] : n \in lo..hi}

\* Family 1: one tileset whose tiles carry every kind of attribute.
TileKinds ==
    {PlainTile, PropsTile,
     MkTile({}, TRUE, TRUE, <<>>, <<>>, UnsetTerrain, UnsetProbability),
     MkTile({2}, TRUE, FALSE, <<>>, <<>>, UnsetTerrain, UnsetProbability),
     MkTile({}, FALSE, TRUE,
            <<MkObjectGroup({}, <<MkObject("Rectangle", Cell(1, 0), <<>>, {})>>)>>,
            <<>>, UnsetTerrain, UnsetProbability),
     MkTile({}, FALSE, TRUE, <<>>,
            <<[tileId |-> 0, duration |-> 100]>>, UnsetTerrain, UnsetProbability),
     MkTile({}, FALSE, TRUE, <<>>, <<>>, <<0, 1, 2, 255>>, UnsetProbability),
     MkTile({}, FALSE, TRUE, <<>>, <<>>, UnsetTerrain, 1)}

TilesetMaps ==
    {MkMap("orthogonal", NoColor, {}, <<MkTileset(1, FALSE, tiles)>>, <<>>) :
        tiles \in SeqsOf(TileKinds, 0, MaxTiles)}
    \cup
    {MkMap("orthogonal", NoColor, {}, <<MkTileset(1, TRUE, tiles)>>, <<>>) :
        tiles \in SeqsOf(TileKinds, 0, 1)}

\* Family 2: several tilesets of plain tiles and one tile layer over them.
\* With `special` the last tile of every tileset has properties.
GridTiles(n, special) ==
    [i \in 1..n |-> IF special /\ i = n THEN PropsTile ELSE PlainTile]

GridTilesets(counts, special) ==
    [t \in DOMAIN counts |-> MkTileset(t, FALSE, GridTiles(counts[t], special))]

\* Every cell value a layer over these tilesets can hold, empty first.
CellChoices(counts) ==
    <<EmptyCell>>
    \o FlatMap(LAMBDA t : [i \in 1..counts[t] |-> Cell(t, i - 1)], Len(counts))

\* The layer whose cells run through the choices, starting at `shift`.
GridLayer(counts, w, h, shift) ==
    LET choices == CellChoices(counts)
    IN MkTileLayer({}, w, h,
           [pos \in (0..(w - 1)) \X (0..(h - 1)) |->
               choices[((pos[2] * w + pos[1] + shift) % Len(choices)) + 1]])

GridMaps ==
    {MkMap("orthogonal", NoColor, {}, GridTilesets(counts, special),
           <<GridLayer(counts, w, h, shift)>>) :
        counts \in SeqsOf(0..MaxTiles, 1, MaxTilesets),
        special \in BOOLEAN,
        w \in 1..MaxDim, h \in 1..MaxDim, shift \in 0..MaxTiles}

\* Family 3: every kind of layer, in every order, under every map header.
LayerKinds ==
    {MkTileLayer({1}, 1, 1, [pos \in {<<0, 0>>} |-> Cell(1, 0)]),
     MkObjectGroup({}, <<>>),
     MkObjectGroup({1}, <<MkObject("Rectangle", EmptyCell, <<>>, {})>>),
     MkObjectGroup({}, <<MkObject("Rectangle", Cell(1, 0), <<>>, {1}),
                         MkObject("Ellipse", EmptyCell, <<>>, {})>>),
     MkObjectGroup({}, <<MkObject("Polygon", EmptyCell,
                                  <<<<0, 0>>, <<10, 0>>, <<10, 10>>>>, {2})>>),
     MkImageLayer({}, FALSE),
     MkImageLayer({1, 2}, TRUE)}

Headers ==
    {<<"orthogonal", NoColor, {}>>, <<"hexagonal", Color(OpaqueAlpha), {1}>>,
     <<"staggered", Color(128), {}>>, <<"isometric", NoColor, {1, 2}>>}

LayerMaps ==
    {MkMap(hd[1], hd[2], hd[3], <<MkTileset(1, FALSE, <<PlainTile>>)>>, layers) :
        hd \in Headers, layers \in SeqsOf(LayerKinds, 0, 1)}
    \cup
    {MkMap("orthogonal", NoColor, {}, <<MkTileset(1, FALSE, <<PlainTile>>)>>,
           layers) : layers \in SeqsOf(LayerKinds, 2, MaxLayers)}

\* Family 4: one object with a point sequence; coordinates in half units.
Coords == (-MaxCoord)..MaxCoord
Points == {<<c, -c>> : c \in Coords}

PolygonMaps ==
    {MkMap("orthogonal", NoColor, {}, <<MkTileset(1, FALSE, <<PlainTile>>)>>,
           <<MkObjectGroup({}, <<MkObject(shape, EmptyCell, polygon, {})>>)>>) :
        shape \in {"Polygon", "Polyline"},
        polygon \in SeqsOf(Points, 0, MaxPoints)}

\* Family 5: a layer with a cell of a tileset that is not one of the map's
\* (map->tilesets() of line 165 does not hold it, so it is never registered).
ForeignTileset == MkTileset(2, FALSE, <<PlainTile>>)
ForeignLayers ==
    {MkObjectGroup({}, <<MkObject("Rectangle", Cell(2, 0), <<>>, {})>>),
     MkTileLayer({}, 1, 1, [pos \in {<<0, 0>>} |-> Cell(2, 0)]),
     MkTileLayer({}, 2, 1, (<<0, 0>> :> Cell(1, 0)) @@ (<<1, 0>> :> Cell(2, 0)))}

ForeignMaps ==
    {[MkMap("orthogonal", NoColor, {}, <<MkTileset(1, FALSE, <<PlainTile>>)>>,
            <<layer>>) EXCEPT !.others = <<ForeignTileset>>] :
        layer \in ForeignLayers}

Maps == TilesetMaps \cup GridMaps \cup LayerMaps \cup PolygonMaps \cup ForeignMaps

\* A tile layer that uses two tilesets or more: only there the iteration
\* order of usedTilesets and the lookup of line 416 in a tileset other than
\* the cell's own come into play.
MultiTilesetLayer(m) ==
    \E i \in DOMAIN m.layers :
        /\ m.layers[i].layerType = "tilelayer"
        /\ Cardinality(usedTilesets(m.layers[i])) >= 2

\* A point coordinate below -1/2: only there unsigned int(r) is undefined.
NegativePoint(m) ==
    \E i \in DOMAIN m.layers : \E j \in DOMAIN m.layers[i].objects :
        \E k \in DOMAIN m.layers[i].objects[j].polygon : \E d \in 1..2 :
            TruncHalf(m.layers[i].objects[j].polygon[k][d]) < 0

TilesetIds(m) ==
    {(m.tilesets \o m.others)[i].id : i \in DOMAIN (m.tilesets \o m.others)}

\* Iteration orders of a QSet of tileset pointers: any order of all of them.
Orders(m) ==
    IF MultiTilesetLayer(m)
    THEN {o \in [1..Cardinality(TilesetIds(m)) -> TilesetIds(m)] :
             \A i, j \in DOMAIN o : i # j => o[i] # o[j]}
    ELSE {SortedSeq(TilesetIds(m))}

\* What the build does where the program's behaviour is undefined.
UnsignedOutcomes(m) ==
    IF NegativePoint(m) THEN {"wrap", "saturate"} ELSE {"wrap"}
TileAtOutcomes(m) ==
    IF MultiTilesetLayer(m) THEN {"crash", "nonempty", "empty"} ELSE {"empty"}

\* GidMapper::gidToCell: the tileset whose range [firstGid, firstGid +
\* tileCount) holds gid, and the local id in it; NoCell when none does.
NoCell == [ts |-> -1, id |-> -1]
gidToCell(g, tilesets, gid) ==
    IF gid = 0 THEN EmptyCell
    ELSE LET hit == {i \in DOMAIN tilesets :
                        /\ tilesets[i].id \in DOMAIN g
                        /\ g[tilesets[i].id] <= gid
                        /\ gid < g[tilesets[i].id] + tileCount(tilesets[i])}
         IN IF hit = {} THEN NoCell
            ELSE LET i == CHOOSE i \in hit : TRUE
                 IN Cell(tilesets[i].id, gid - g[tilesets[i].id])

(***************************************************************************)
(* LuaPlugin::write (lines 69-101), in three steps.  The destination path  *)
(* holds "absent" (no file), "previous" (a complete document of an earlier *)
(* export), "damaged" (what a failed earlier export left), "empty" (just   *)
(* truncated), "partial" (part of this export's document) or "complete"    *)
(* (this export's whole document).                                         *)
(***************************************************************************)
NoMap == MkMap("orthogonal", NoColor, {}, <<>>, <<>>)

\* What this export finds at the path that an earlier one left.
Found(d) ==
    CASE d = "complete" -> "previous"
      [] d \in {"empty", "partial"} -> "damaged"
      [] OTHER -> d

Init ==
    /\ variant \in {"QSaveFile", "QFile"}
    /\ pc = "idle"
    /\ map = NoMap
    /\ calls = <<>>
    /\ mGidMapper = EmptyGidMapper
    /\ mError = ""
    /\ ret = "none"
    /\ dest \in {"absent", "previous"}
    /\ before = dest

\* Lines 71-81: file.open.  QFile truncates the destination; QSaveFile
\* opens a temporary file beside it.
Open(m, opened) ==
    /\ pc = "idle"
    /\ calls' = <<>>
    /\ before' = Found(dest)
    /\ IF opened
       THEN /\ pc' = "opened"
            /\ map' = m
            /\ ret' = "none"
            /\ dest' = IF variant = "QFile" THEN "empty" ELSE Found(dest)
            /\ UNCHANGED mError
       ELSE /\ pc' = "idle"
            /\ map' = NoMap
            /\ ret' = "false"
            /\ mError' = "Could not open file for writing."
            /\ dest' = Found(dest)
    /\ UNCHANGED <<variant, mGidMapper>>

\* Lines 84-86: the calls of one traversal and the table it leaves.
Export(g0, m, ord, ubc, ubt) ==
    LET r == writeMap(g0, m, ord, ubc, ubt)
        full == writeStartDocument \o r.out \o writeEndDocument
    IN [out |-> CutAtCrash(full), g |-> r.g,
        crashed |-> CutAtCrash(full) # full]

\* Lines 83-86: the traversal.  With QFile the document goes to the
\* destination itself, and is all there only once the file is closed.
Traverse(ord, ubc, ubt) ==
    /\ pc = "opened"
    /\ LET r == Export(mGidMapper, map, ord, ubc, ubt)
       IN /\ calls' = r.out
          /\ mGidMapper' = r.g
          /\ pc' = IF r.crashed THEN "crashed" ELSE "traversed"
    /\ dest' = IF variant = "QFile" THEN "partial" ELSE dest
    /\ UNCHANGED <<variant, map, mError, ret, before>>

FinishIgnoreCommit(failed, committed) ==
    /\ pc = "traversed"
    /\ pc' = "idle"
    /\ map' = NoMap
    /\ calls' = <<>>
    /\ IF failed
       THEN /\ mError' = "device error"
            /\ ret' = "false"
            /\ UNCHANGED dest
       ELSE /\ ret' = "true"
            /\ dest' = IF variant = "QSaveFile" /\ ~committed
                       THEN dest ELSE "complete"
            /\ UNCHANGED mError
    /\ UNCHANGED <<variant, mGidMapper, before>>

\* Lines 88-100: the error check and, with QSaveFile, the commit.  failed: a
\* write to the device failed during the traversal.  A QSaveFile that goes
\* out of scope uncommitted discards its temporary file.
Finish(failed, committed) ==
    /\ pc = "traversed"
    /\ pc' = "idle"
    /\ map' = NoMap
    /\ calls' = <<>>
    /\ IF failed
       THEN /\ mError' = "device error"
            /\ ret' = "false"
            /\ UNCHANGED dest
       ELSE IF variant = "QSaveFile" /\ ~committed
       THEN /\ mError' = "commit error"
            /\ ret' = "false"
            /\ UNCHANGED dest
       ELSE /\ ret' = "true"
            /\ dest' = "complete"
            /\ UNCHANGED mError
    /\ UNCHANGED <<variant, mGidMapper, before>>

Next ==
    \/ \E m \in Maps, opened \in BOOLEAN : Open(m, opened)
    \/ \E ord \in Orders(map), ubc \in UnsignedOutcomes(map),
          ubt \in TileAtOutcomes(map) : Traverse(ord, ubc, ubt)
    \/ \E failed, committed \in BOOLEAN : Finish(failed, committed)

Spec == Init /\ [][Next]_vars


(***************************************************************************)
(* Reading a call sequence.  LuaTableWriter keeps the number of open       *)
(* tables: a start-table call adds one, writeEndTable takes one away.      *)
(***************************************************************************)
IsStart(e) == e.op \in {"startTable", "quotedStartTable", "startReturnTable"}
IsEnd(e) == e.op = "endTable"
IsGidCall(e) == e.op \in {"gidClear", "gidInsert", "gidLookup"}

\* d[i]: the open-table depth after call i.
Depths(tr) ==
    LET starts == {k \in 1..Len(tr) : IsStart(tr[k])}
        ends == {k \in 1..Len(tr) : IsEnd(tr[k])}
    IN [i \in 1..Len(tr) |->
           Cardinality({k \in starts : k <= i})
           - Cardinality({k \in ends : k <= i})] \o <<>>

\* The calls made on the writer (the document), without the mapper's.
WriterCalls(tr) == SelectSeq(tr, LAMBDA e : ~IsGidCall(e))

\* The writeEndTable that closes the table opened by call i.
MatchEnd(tr, D, i) ==
    CHOOSE j \in (i + 1)..Len(tr) :
        /\ IsEnd(tr[j])
        /\ D[j] = D[i] - 1
        /\ \A k \in i..(j - 1) : D[k] >= D[i]

\* The calls made directly in the table opened by call i (not in a table
\* nested in it), in order: its pairs, its values and its sub-table starts.
Children(tr, D, i) ==
    LET j == MatchEnd(tr, D, i)
    IN SelectSeq([k \in 1..(j - i - 1) |-> i + k],
                 LAMBDA k : IF IsStart(tr[k]) THEN D[k] = D[i] + 1
                            ELSE ~IsEnd(tr[k]) /\ D[k] = D[i])

\* The start-table calls with this key, in order.
TablesKeyed(tr, key) ==
    SelectSeq([k \in 1..Len(tr) |-> k],
              LAMBDA k : IsStart(tr[k]) /\ tr[k].key = key)

Visited == pc \in {"traversed", "crashed"}

(***************************************************************************)
(* C1.  The firstGid values given to the tilesets.                         *)
(***************************************************************************)
Inserts(tr) == SelectSeq(tr, LAMBDA e : e.op = "gidInsert")

\* C1 as claimed: firstGid starts at 1, firstGid(i+1) = firstGid(i) +
\* tileCount(i), the values increase strictly for every tile count (0
\* included), and every tileset is registered with its firstGid.
C1_StrictlyIncreasing ==
    Visited =>
        LET ins == Inserts(calls)
            n == Len(map.tilesets)
        IN /\ Len(ins) = n
           /\ n >= 1 => ins[1].a = 1
           /\ \A i \in 1..(n - 1) :
                 /\ ins[i + 1].a = ins[i].a + Len(map.tilesets[i].tiles)
                 /\ ins[i + 1].a > ins[i].a
           /\ \A i \in 1..n : ins[i].b = map.tilesets[i].id

\* C1 (amended): firstGid starts at 1, firstGid(i+1) = firstGid(i) +
\* tileCount(i), so the values never decrease and increase exactly after a
\* tileset that has tiles (an empty tileset shares its firstGid with the
\* next one); every tileset is registered once, in map order, with the
\* firstGid it was given.
C1_FirstGids ==
    Visited =>
        LET ins == Inserts(calls)
            n == Len(map.tilesets)
        IN /\ Len(ins) = n
           /\ n >= 1 => ins[1].a = 1
           /\ \A i \in 1..(n - 1) :
                 /\ ins[i + 1].a = ins[i].a + Len(map.tilesets[i].tiles)
                 /\ ins[i + 1].a >= ins[i].a
                 /\ (ins[i + 1].a > ins[i].a) <=> (map.tilesets[i].tiles # <<>>)
           /\ \A i \in 1..n : ins[i].b = map.tilesets[i].id

\* An export that visited an empty tileset followed by one with two tiles.
C1_Witness ==
    /\ pc = "traversed"
    /\ Len(map.tilesets) = 2
    /\ map.tilesets[1].tiles = <<>>
    /\ Len(map.tilesets[2].tiles) = 2
    /\ Len(Inserts(calls)) = 2
    /\ Inserts(calls)[2].a = 1

(***************************************************************************)
(* C3.  The writer calls of one export are balanced.                       *)
(***************************************************************************)
\* C3: the open-table depth never goes below zero, it is zero when
\* writeEndDocument is called, and an export that runs to its end has closed
\* every table it opened: every start-table call has its writeEndTable.
C3_Balanced ==
    LET D == Depths(calls)
        n == Len(calls)
    IN /\ \A i \in 1..n : D[i] >= 0
       /\ \A i \in 1..n : calls[i].op = "endDocument" => D[i] = 0
       /\ pc = "traversed" =>
             /\ calls[n].op = "endDocument"
             /\ Cardinality({i \in 1..n : IsStart(calls[i])})
                  = Cardinality({i \in 1..n : IsEnd(calls[i])})
             /\ \A i \in 1..n : IsStart(calls[i]) =>
                   \E j \in (i + 1)..n :
                       /\ IsEnd(calls[j])
                       /\ D[j] = D[i] - 1
                       /\ \A k \in i..(j - 1) : D[k] >= D[i]

\* A finished export with a specialtiles table and tables nested four deep.
C3_Witness ==
    /\ pc = "traversed"
    /\ \E i \in DOMAIN calls : calls[i].key = "specialtiles"
    /\ \E i \in DOMAIN calls : Depths(calls)[i] >= 4


(***************************************************************************)
(* The `data` tables of the tile layers.                                   *)
(***************************************************************************)
Indices(tr) == [k \in 1..Len(tr) |-> k]
TileLayers(m) == SelectSeq(m.layers, LAMBDA l : l.layerType = "tilelayer")

\* The row sub-tables of the data table opened by call i: for each, the
\* calls made in it, in order (its values and the lookups that gave them).
DataRowCalls(tr, D, i) ==
    LET rows == SelectSeq(Children(tr, D, i), LAMBDA k : IsStart(tr[k]))
    IN [r \in 1..Len(rows) |->
           LET ch == Children(tr, D, rows[r])
           IN [v \in 1..Len(ch) |-> tr[ch[v]]]]

\* The same, keeping only the values written.
DataRows(tr, D, i) ==
    LET rows == DataRowCalls(tr, D, i)
    IN [r \in 1..Len(rows) |->
           SelectSeq(rows[r], LAMBDA e : e.op = "value")]

(***************************************************************************)
(* C2.  Round trip of the data rows through the GID table.                 *)
(***************************************************************************)
\* C2 as claimed: for every tile layer and every position (x, y), the id
\* written for the cell in row y, mapped back by the range lookup over the
\* GID table, is the cell's (tileset, local id); empty cells are written 0.
C2_RoundTrip ==
    pc = "traversed" =>
        LET D == Depths(calls)
            data == TablesKeyed(calls, "data")
            layers == TileLayers(map)
        IN \A k \in 1..Len(layers) :
              LET rows == DataRows(calls, D, data[k])
              IN \A y \in 0..(layers[k].height - 1) :
                    \A x \in 0..(layers[k].width - 1) :
                        gidToCell(mGidMapper, map.tilesets,
                                  rows[y + 1][x + 2].a)
                          = cellAt(layers[k], x, y)

(***************************************************************************)
(* C7.  Shape of the data table.                                           *)
(***************************************************************************)
\* C7 as claimed: the data table of a W x H layer holds exactly H rows, and
\* row y holds exactly W values, the ids looked up for the cells (0,y) ..
\* (W-1,y) in that order.
C7_RowsOfWidth ==
    pc = "traversed" =>
        LET D == Depths(calls)
            data == TablesKeyed(calls, "data")
            layers == TileLayers(map)
        IN /\ Len(data) = Len(layers)
           /\ \A k \in 1..Len(layers) :
                 LET rows == DataRowCalls(calls, D, data[k])
                     W == layers[k].width
                 IN /\ Len(rows) = layers[k].height
                    /\ \A y \in 1..Len(rows) :
                          /\ Len(rows[y]) = 2 * W
                          /\ \A x \in 1..W :
                                /\ rows[y][2 * x - 1]
                                     = gidLookup("cellToGidOrigin",
                                           cellAt(layers[k], x - 1, y - 1))[1]
                                /\ rows[y][2 * x].op = "value"

\* C7 (amended): the data table of a W x H layer holds exactly H rows, in
\* row order, and row y (counted from 1) holds exactly W + 1 values: the row
\* number y, then the ids of the cells (0,y-1) .. (W-1,y-1) in column order,
\* each the result of cellToGidOrigin for that cell; a 2x1 layer yields one
\* row of three values, the first of them 1.
C7_Rows ==
    pc = "traversed" =>
        LET D == Depths(calls)
            data == TablesKeyed(calls, "data")
            layers == TileLayers(map)
        IN /\ Len(data) = Len(layers)
           /\ \A k \in 1..Len(layers) :
                 LET rows == DataRowCalls(calls, D, data[k])
                     W == layers[k].width
                 IN /\ Len(rows) = layers[k].height
                    /\ \A y \in 1..Len(rows) :
                          /\ Len(rows[y]) = 2 * W + 1
                          /\ rows[y][1] = writeValue(y)[1]
                          /\ \A x \in 1..W :
                                /\ rows[y][2 * x]
                                     = gidLookup("cellToGidOrigin",
                                           cellAt(layers[k], x - 1, y - 1))[1]
                                /\ rows[y][2 * x + 1].op = "value"
                          /\ Len(SelectSeq(rows[y], LAMBDA e : e.op = "value"))
                               = W + 1

\* A finished export of a 2x2 layer whose cells differ from one another.
C7_Witness ==
    /\ pc = "traversed"
    /\ \E k \in DOMAIN map.layers :
          /\ map.layers[k].layerType = "tilelayer"
          /\ map.layers[k].width = 2
          /\ map.layers[k].height = 2
          /\ Cardinality({cellAt(map.layers[k], x, y) :
                             x \in 0..1, y \in 0..1}) = 4

(***************************************************************************)
(* C6.  The tiles written for a tileset.                                   *)
(***************************************************************************)
\* C6: the `tiles` table of a tileset holds one entry, keyed i + 1, for
\* every tile i that has properties, an image source, an object group,
\* animation frames, a terrain other than 0xFFFFFFFF or a probability other
\* than -1, no entry for any other tile, and the entries in ascending order.
C6_IncludedTiles ==
    Visited =>
        LET D == Depths(calls)
            tables == TablesKeyed(calls, "tiles")
        IN /\ Len(tables) = Len(map.tilesets)
           /\ \A k \in 1..Len(tables) :
                 LET tiles == map.tilesets[k].tiles
                     entries == SelectSeq(Children(calls, D, tables[k]),
                                          LAMBDA e : IsStart(calls[e]))
                     wanted ==
                         SelectSeq([i \in 1..Len(tiles) |-> i],
                             LAMBDA i :
                                 \/ tiles[i].properties # {}
                                 \/ tiles[i].imageSource
                                 \/ tiles[i].objectGroup # <<>>
                                 \/ tiles[i].frames # <<>>
                                 \/ tiles[i].terrain # <<255, 255, 255, 255>>
                                 \/ tiles[i].terrainProbability # -1)
                 IN /\ [e \in 1..Len(entries) |-> calls[entries[e]].a] = wanted
                    /\ \A e \in 1..Len(entries) :
                          /\ calls[entries[e]].op = "quotedStartTable"
                          /\ calls[entries[e]].key = "id = "
                    /\ Len(Children(calls, D, tables[k])) = Len(entries)

\* A finished export of a tileset whose first tile is plain and whose
\* second tile has only animation frames.
C6_Witness ==
    /\ pc = "traversed"
    /\ Len(map.tilesets) = 1
    /\ Len(map.tilesets[1].tiles) = 2
    /\ map.tilesets[1].tiles[1] = PlainTile
    /\ map.tilesets[1].tiles[2].frames # <<>>
    /\ \E i \in DOMAIN calls :
          calls[i].op = "quotedStartTable" /\ calls[i].key = "id = "
              /\ calls[i].a = 2


(***************************************************************************)
(* C8.  The point sequence of a map object.                                *)
(***************************************************************************)
\* The map objects in the order the export visits them: those of the tiles'
\* object groups, tileset by tileset, then those of the object layers.
AllObjects(m) ==
    FlatMap(LAMBDA t :
        FlatMap(LAMBDA i :
            IF m.tilesets[t].tiles[i].objectGroup = <<>> THEN <<>>
            ELSE m.tilesets[t].tiles[i].objectGroup[1].objects,
            Len(m.tilesets[t].tiles)),
        Len(m.tilesets))
    \o FlatMap(LAMBDA l : m.layers[l].objects, Len(m.layers))

\* C8 as claimed: every map object with n >= 1 points gets one sub-table,
\* keyed polygon for a Polygon and polyline otherwise, holding exactly 2n
\* values x0, y0, x1, y1, ..., each the coordinate truncated toward zero,
\* negative coordinates included.
C8_Truncated ==
    pc = "traversed" =>
        LET D == Depths(calls)
            objs == SelectSeq(AllObjects(map), LAMBDA o : Len(o.polygon) >= 1)
            tables == SelectSeq(Indices(calls),
                          LAMBDA k : /\ IsStart(calls[k])
                                     /\ calls[k].key \in {"polygon", "polyline"})
        IN /\ Len(tables) = Len(objs)
           /\ \A k \in 1..Len(objs) :
                 LET vals == SelectSeq(Children(calls, D, tables[k]),
                                       LAMBDA v : calls[v].op = "value")
                 IN /\ calls[tables[k]].key
                         = (IF objs[k].shape = "Polygon"
                            THEN "polygon" ELSE "polyline")
                    /\ Len(vals) = 2 * Len(objs[k].polygon)
                    /\ \A p \in 1..Len(objs[k].polygon) : \A d \in 1..2 :
                          /\ calls[vals[2 * (p - 1) + d]].a
                               = TruncHalf(objs[k].polygon[p][d])
                          /\ calls[vals[2 * (p - 1) + d]].b = 0

(***************************************************************************)
(* C9.  The properties table of every entity.                              *)
(***************************************************************************)
\* The start-table call whose table directly holds the table opened by i.
Parent(tr, D, i) ==
    LET above == {p \in 1..(i - 1) : IsStart(tr[p]) /\ D[p] = D[i] - 1}
    IN CHOOSE p \in above : \A q \in above : q <= p

\* The kind of entity whose table call i opens; "none" for any other table.
EntityKind(tr, D, i) ==
    IF ~IsStart(tr[i]) THEN "none"
    ELSE IF tr[i].op = "startReturnTable" THEN "map"
    ELSE IF tr[i].op = "quotedStartTable" /\ tr[i].key = "name"
    THEN LET ch == Children(tr, D, i)
             ty == CHOOSE k \in DOMAIN ch :
                       tr[ch[k]].op = "keyValue" /\ tr[ch[k]].key = "type"
         IN tr[ch[ty]].s
    ELSE LET up == tr[Parent(tr, D, i)]
         IN CASE up.op = "startTable" /\ up.key = "tilesets" -> "tileset"
              [] up.op = "startTable" /\ up.key = "terrains" -> "terrain"
              [] up.op = "startTable" /\ up.key = "tiles" -> "tile"
              [] up.op = "startTable" /\ up.key = "objects" -> "mapobject"
              [] OTHER -> "none"

IsScalar(e) == e.op \in {"keyValue", "quotedKeyValue"}
PropertiesOf(tr, D, i) ==
    SelectSeq(Children(tr, D, i),
              LAMBDA k : IsStart(tr[k]) /\ tr[k].key = "properties")

\* The tile behind the tile entry opened by call i.
TileOfEntry(tr, D, i, m) ==
    LET tables == TablesKeyed(tr, "tiles")
        t == CHOOSE t \in DOMAIN tables : tables[t] = Parent(tr, D, i)
    IN m.tilesets[t].tiles[tr[i].a]

\* How many entities the export of m visits.
EntityCount(m) ==
    LET perTileset(t) ==
            1 + Len(m.tilesets[t].terrains)
            + Cardinality({i \in DOMAIN m.tilesets[t].tiles :
                  \/ m.tilesets[t].tiles[i].properties # {}
                  \/ m.tilesets[t].tiles[i].imageSource
                  \/ m.tilesets[t].tiles[i].objectGroup # <<>>
                  \/ m.tilesets[t].tiles[i].frames # <<>>
                  \/ m.tilesets[t].tiles[i].terrain # <<255, 255, 255, 255>>
                  \/ m.tilesets[t].tiles[i].terrainProbability # -1})
            + Cardinality({i \in DOMAIN m.tilesets[t].tiles :
                  m.tilesets[t].tiles[i].objectGroup # <<>>})
        sum[t \in 0..Len(m.tilesets)] ==
            IF t = 0 THEN 0 ELSE sum[t - 1] + perTileset(t)
    IN 1 + sum[Len(m.tilesets)] + Len(m.layers) + Len(AllObjects(m))

\* C9 as claimed: every entity's table holds exactly one `properties`
\* sub-table, after all of the entity's key/value pairs and before every
\* other table nested in it.
C9_OneAfterScalars ==
    pc = "traversed" =>
        LET D == Depths(calls)
        IN \A i \in DOMAIN calls :
              EntityKind(calls, D, i) # "none" =>
                  LET ch == Children(calls, D, i)
                      props == PropertiesOf(calls, D, i)
                  IN /\ Len(props) = 1
                     /\ \A k \in DOMAIN ch :
                           /\ IsScalar(calls[ch[k]]) => ch[k] < props[1]
                           /\ (IsStart(calls[ch[k]]) /\ ch[k] # props[1])
                                 => ch[k] > props[1]

\* C9 (amended): the export visits every entity, and
\*   - the map, every tileset, terrain, tile layer, object group, image layer
\*     and map object gets exactly one `properties` sub-table, also for an
\*     empty bag; an included tile gets one exactly when its bag is not empty,
\*     and then as the first thing in its table;
\*   - for the others the sub-table follows all the entity's key/value pairs,
\*     except that a tile layer's `encoding` pair comes right after it;
\*   - it precedes every other nested table, except the map's
\*     `backgroundcolor` and a map object's `polygon`/`polyline`, which
\*     come before it.
C9_Properties ==
    pc = "traversed" =>
        LET D == Depths(calls)
            entities == {i \in DOMAIN calls : EntityKind(calls, D, i) # "none"}
        IN /\ Cardinality(entities) = EntityCount(map)
           /\ \A i \in entities :
                 LET kind == EntityKind(calls, D, i)
                     ch == Children(calls, D, i)
                     props == PropertiesOf(calls, D, i)
                     early == CASE kind = "map" -> {"backgroundcolor"}
                                [] kind = "mapobject" -> {"polygon", "polyline"}
                                [] OTHER -> {}
                 IN IF kind = "tile"
                    THEN /\ Len(props)
                              = (IF TileOfEntry(calls, D, i, map).properties # {}
                                 THEN 1 ELSE 0)
                         /\ Len(props) = 1 => props[1] = ch[1]
                    ELSE /\ Len(props) = 1
                         /\ \A k \in DOMAIN ch :
                               /\ IsScalar(calls[ch[k]]) =>
                                     IF kind = "tilelayer"
                                        /\ calls[ch[k]].key = "encoding"
                                     THEN ch[k] = MatchEnd(calls, D, props[1]) + 1
                                     ELSE ch[k] < props[1]
                               /\ (IsStart(calls[ch[k]]) /\ ch[k] # props[1]) =>
                                     IF calls[ch[k]].key \in early
                                     THEN ch[k] < props[1]
                                     ELSE ch[k] > props[1]

\* A finished export of a map with a background colour whose only layer is
\* an object group holding an object with points.
C9_Witness ==
    /\ pc = "traversed"
    /\ map.backgroundColor.valid
    /\ Len(map.layers) = 1
    /\ map.layers[1].layerType = "objectgroup"
    /\ Len(map.layers[1].objects) = 1
    /\ map.layers[1].objects[1].polygon # <<>>
    /\ Cardinality({i \in DOMAIN calls :
           IsStart(calls[i]) /\ calls[i].key = "properties"}) = 4

(***************************************************************************)
(* C10.  Registrations and lookups in the GID table.                       *)
(***************************************************************************)
\* C10 as claimed: every lookup in the GID table comes after the
\* registration of every tileset of the map, and no registration or clear
\* comes after a lookup.
C10_PopulatedFirst ==
    Visited =>
        \A i \in DOMAIN calls :
            calls[i].op = "gidLookup" =>
                /\ Cardinality({j \in 1..(i - 1) : calls[j].op = "gidInsert"})
                     = Len(map.tilesets)
                /\ \A j \in (i + 1)..Len(calls) :
                      calls[j].op \notin {"gidInsert", "gidClear"}

(***************************************************************************)
(* C4.  What write leaves at the destination.                              *)
(***************************************************************************)
\* C4 as claimed: in both build variants, when write has returned false the
\* destination holds what it held before the call, and when write has
\* returned true it holds the complete new document.
C4_BothVariants ==
    pc = "idle" =>
        /\ ret = "false" => dest = before
        /\ ret = "true" => dest = "complete"

\* C4 (amended): when write has returned true the destination holds the
\* complete new document.  With QSaveFile the destination holds what it held
\* before the call throughout the export and after write has returned false.
\* With QFile that holds only when the open failed: a device error found
\* after the traversal leaves the truncated, partly written file in place.
C4_CommitOnSuccess ==
    /\ (pc = "idle" /\ ret = "true") => dest = "complete"
    /\ (variant = "QSaveFile" /\ (pc # "idle" \/ ret = "false")) => dest = before
    /\ (variant = "QFile" /\ pc = "idle" /\ ret = "false") =>
          IF mError = "Could not open file for writing."
          THEN dest = before ELSE dest = "partial"

\* write has returned false for a failed commit over an earlier export's
\* document.
C4_Witness ==
    /\ variant = "QSaveFile"
    /\ pc = "idle"
    /\ ret = "false"
    /\ mError = "commit error"
    /\ before = "previous"
    /\ dest = "previous"

(***************************************************************************)
(* C5.  The output as a function of the map.                               *)
(***************************************************************************)
\* C5 as claimed: the calls an export makes on the writer are those a fresh
\* plugin makes for the same map with the layer's tilesets taken in the
\* order of their registration: neither the GID table an earlier export
\* left nor the iteration order of the set of used tilesets changes them.
C5_SameOutput ==
    [][(pc = "opened" /\ pc' \in {"traversed", "crashed"}) =>
          \E ubc \in UnsignedOutcomes(map), ubt \in TileAtOutcomes(map) :
              WriterCalls(calls')
                = WriterCalls(Export(EmptyGidMapper, map,
                                     SortedSeq(TilesetIds(map)), ubc, ubt).out)]_vars


(***************************************************************************)
(* C11.  Cells of a tileset that was never registered.                     *)
(***************************************************************************)
\* A non-empty cell of a tile layer or of a map object of a layer references
\* a tileset that is not one of the map's tilesets.
ForeignCell(m) ==
    LET own == {m.tilesets[t].id : t \in DOMAIN m.tilesets}
    IN \E l \in DOMAIN m.layers :
          \/ \E pos \in DOMAIN m.layers[l].cells :
                /\ ~CellIsEmpty(m.layers[l].cells[pos])
                /\ m.layers[l].cells[pos].ts \notin own
          \/ \E o \in DOMAIN m.layers[l].objects :
                /\ ~CellIsEmpty(m.layers[l].objects[o].cell)
                /\ m.layers[l].objects[o].cell.ts \notin own

\* C11 as claimed: when write returns from the export of a map with a cell
\* of an unregistered tileset, it returns failure with an error message and
\* the destination does not hold the document written for that map.
C11_FailsOnUnregistered ==
    [][(pc = "traversed" /\ pc' = "idle" /\ ForeignCell(map)) =>
          /\ ret' = "false"
          /\ mError' # ""
          /\ dest' # "complete"]_vars

(***************************************************************************)
(* C12.  The specialtiles table of a tile layer.                           *)
(***************************************************************************)
\* The positions <<y + 1, x + 1>> of the layer, in row-major order, whose
\* cell's own tile has properties.
OwnSpecialTiles(m, layer) ==
    LET W == layer.width
        all == [p \in 1..(W * layer.height) |->
                   <<((p - 1) \div W) + 1, ((p - 1) % W) + 1>>]
    IN SelectSeq(all, LAMBDA q :
           LET cell == cellAt(layer, q[2] - 1, q[1] - 1)
           IN /\ ~CellIsEmpty(cell)
              /\ TilesetById(m.tilesets \o m.others, cell.ts)
                     .tiles[cell.id + 1].properties # {})

\* C12 as claimed: no export dies in a tile lookup beyond a tileset's tile
\* count, and for every tile layer the specialtiles table exists exactly
\* when some cell's own tile has properties, comes before the data table,
\* and holds one entry keyed (y + 1, x + 1) per such cell, in row-major
\* order, and no other entry.
C12_SpecialTiles ==
    /\ pc # "crashed"
    /\ pc = "traversed" =>
          LET D == Depths(calls)
              data == TablesKeyed(calls, "data")
              layers == TileLayers(map)
          IN \A k \in 1..Len(layers) :
                LET up == Parent(calls, D, data[k])
                    special == SelectSeq(Children(calls, D, up),
                                   LAMBDA c : /\ IsStart(calls[c])
                                              /\ calls[c].key = "specialtiles")
                    expected == OwnSpecialTiles(map, layers[k])
                IN /\ Len(special) = (IF expected = <<>> THEN 0 ELSE 1)
                   /\ Len(special) = 1 =>
                         LET entries == SelectSeq(
                                 Children(calls, D, special[1]),
                                 LAMBDA c : IsStart(calls[c]))
                         IN /\ special[1] < data[k]
                            /\ [e \in 1..Len(entries) |->
                                   <<calls[entries[e]].a,
                                     calls[entries[e]].b>>] = expected
                            /\ \A e \in 1..Len(entries) :
                                  calls[entries[e]].key = "y = , x = "

====
